---- MODULE Spec2Model ----
(***************************************************************************)
(* Greenhouse digital-twin dashboard: the App component's telemetry        *)
(* synchronisation (fetchData, the poll timer, the localStorage cache)     *)
(* and the sensor selection of the detail modal.                           *)
(*                                                                         *)
(* JavaScript strings are sequences of UTF-16 code units, JavaScript       *)
(* values that may be undefined are records tagged with their type.        *)
(***************************************************************************)
EXTENDS Integers, Sequences, FiniteSets, TLC

VARIABLES data, history, loading, isOffline, selectedSensor,
          cache, interval, pending, issued, completed, lastCall

vars == <<data, history, loading, isOffline, selectedSensor,
          cache, interval, pending, issued, completed, lastCall>>

----------------------------------------------------------------------------
(* Bounds of the model *)

\* longest reading array a response of the endpoint carries
MaxReadings == 2
\* number of fetchData calls issued in a session (the mount call and the ticks)
MaxFetches == 2
\* longest reading array given to the filter/sort step on its own
MaxCleanLen == 3

----------------------------------------------------------------------------
(* Strings, as code units *)

s_a_rh == <<97, 95, 114, 104>>
s_A_rh == <<65, 95, 114, 104>>
s_B_temp == <<66, 95, 116, 101, 109, 112>>
s_b_temp == <<98, 95, 116, 101, 109, 112>>
s_a2 == <<97, 50>>
s_12abc == <<49, 50, 97, 98, 99>>
s_indoor_co2 == <<105, 110, 100, 111, 111, 114, 95, 99, 111, 50>>
s_indoor_vpd == <<105, 110, 100, 111, 111, 114, 95, 118, 112, 100>>
s_matlab_datenum == <<109, 97, 116, 108, 97, 98, 95, 100, 97, 116, 101, 110, 117, 109>>
s_unix_time == <<117, 110, 105, 120, 95, 116, 105, 109, 101>>
s_UNIX_TIME == <<85, 78, 73, 88, 95, 84, 73, 77, 69>>
s_timestamp == <<116, 105, 109, 101, 115, 116, 97, 109, 112>>
s_Timestamp == <<84, 105, 109, 101, 115, 116, 97, 109, 112>>
s_42 == <<52, 50>>
s_neg1p5 == <<45, 49, 46, 53>>
s_1e3 == <<49, 101, 51>>
s_0x1F == <<48, 120, 49, 70>>
s_sp7sp == <<32, 55, 32>>
s_empty == <<>>
s_Infinity == <<73, 110, 102, 105, 110, 105, 116, 121>>

\* the control fields the filter drops
ReservedNames == {s_matlab_datenum, s_unix_time, s_timestamp}

\* the status string of the failover archive
S3_STATUS == "S3 (Failover Archive)"

----------------------------------------------------------------------------
(* JavaScript values *)

Undefined == [type |-> "undefined"]
Null == [type |-> "null"]
Str(s) == [type |-> "string", value |-> s]
Num(n) == [type |-> "number", value |-> n]
Arr(items) == [type |-> "array", items |-> items]

\* json.data && Array.isArray(json.data)
IsArray(v) == v.type = "array"

\* v || []
OrEmptyArray(v) == IF v.type \in {"undefined", "null"} THEN Arr(<<>>) ELSE v

\* property read of a parsed JSON value that is not null: only an object
\* carries data, history and system_status
Prop(json, key) ==
  IF json.type = "object" /\ key \in DOMAIN json THEN json[key] ELSE Undefined

----------------------------------------------------------------------------
(* String.prototype.toLowerCase, on the ASCII range *)

LowerUnit(c) == IF c >= 65 /\ c <= 90 THEN c + 32 ELSE c

toLowerCase(s) == [i \in 1..Len(s) |-> LowerUnit(s[i])]

----------------------------------------------------------------------------
(* isNaN(string): ToNumber of the string is NaN unless the trimmed string  *)
(* is empty or a StringNumericLiteral                                      *)

WhiteSpace == {9, 10, 11, 12, 13, 32, 160}
Digits == 48..57

RECURSIVE TrimStart(_)
TrimStart(s) ==
  IF s # <<>> /\ Head(s) \in WhiteSpace THEN TrimStart(Tail(s)) ELSE s

RECURSIVE TrimEnd(_)
TrimEnd(s) ==
  IF s # <<>> /\ s[Len(s)] \in WhiteSpace
    THEN TrimEnd(SubSeq(s, 1, Len(s) - 1))
    ELSE s

Trim(s) == TrimEnd(TrimStart(s))

AllIn(s, set) == \A i \in 1..Len(s) : s[i] \in set

IsDigits(s) == Len(s) >= 1 /\ AllIn(s, Digits)

\* DecimalDigits . DecimalDigits(opt)  |  . DecimalDigits  |  DecimalDigits
IsMantissa(s) ==
  \/ IsDigits(s)
  \/ \E k \in 1..Len(s) :
       /\ s[k] = 46
       /\ AllIn(SubSeq(s, 1, k - 1), Digits)
       /\ AllIn(SubSeq(s, k + 1, Len(s)), Digits)
       /\ Len(s) >= 2

IsExponent(s) ==
  \/ IsDigits(s)
  \/ (Len(s) >= 2 /\ s[1] \in {43, 45} /\ IsDigits(Tail(s)))

IsUnsignedDecimal(s) ==
  \/ s = s_Infinity
  \/ IsMantissa(s)
  \/ \E k \in 1..Len(s) :
       /\ s[k] \in {69, 101}
       /\ IsMantissa(SubSeq(s, 1, k - 1))
       /\ IsExponent(SubSeq(s, k + 1, Len(s)))

IsStrDecimalLiteral(s) ==
  \/ IsUnsignedDecimal(s)
  \/ (Len(s) >= 2 /\ s[1] \in {43, 45} /\ IsUnsignedDecimal(Tail(s)))

HexDigits == Digits \cup (65..70) \cup (97..102)

IsNonDecimalLiteral(s) ==
  /\ Len(s) >= 3
  /\ s[1] = 48
  /\ \/ (s[2] \in {88, 120} /\ AllIn(SubSeq(s, 3, Len(s)), HexDigits))
     \/ (s[2] \in {79, 111} /\ AllIn(SubSeq(s, 3, Len(s)), 48..55))
     \/ (s[2] \in {66, 98} /\ AllIn(SubSeq(s, 3, Len(s)), 48..49))

\* the code units a numeric literal is written with
LiteralUnits ==
  HexDigits \cup {43, 45, 46, 88, 120, 79, 111} \cup {s_Infinity[i] : i \in 1..Len(s_Infinity)}

isNaN(s) ==
  LET t == Trim(s)
  IN  ~(\/ t = <<>>
        \/ /\ AllIn(t, LiteralUnits)
           /\ (IsStrDecimalLiteral(t) \/ IsNonDecimalLiteral(t)))

----------------------------------------------------------------------------
(* String.prototype.localeCompare with the default collation, on the       *)
(* ASCII range: the primary level orders white space, then punctuation,    *)
(* then digits, then letters without regard to case; the tertiary level    *)
(* breaks a primary tie with lower case before upper case                  *)

IsLetter(c) == (c >= 65 /\ c <= 90) \/ (c >= 97 /\ c <= 122)

PrimaryWeight(c) ==
  IF IsLetter(c) THEN 300 + LowerUnit(c)
  ELSE IF c \in Digits THEN 200 + c
  ELSE IF c = 95 THEN 101
  ELSE IF c = 45 THEN 102
  ELSE IF c = 46 THEN 103
  ELSE IF c \in WhiteSpace THEN 1
  ELSE 150 + c

TertiaryWeight(c) == IF c >= 65 /\ c <= 90 THEN 1 ELSE 0

\* lexicographic comparison of the primary weights of a and b from
\* position i on: -1, 0 or 1
RECURSIVE ComparePrimary(_, _, _)
ComparePrimary(a, b, i) ==
  IF i > Len(a) /\ i > Len(b) THEN 0
  ELSE IF i > Len(a) THEN -1
  ELSE IF i > Len(b) THEN 1
  ELSE IF PrimaryWeight(a[i]) < PrimaryWeight(b[i]) THEN -1
  ELSE IF PrimaryWeight(a[i]) > PrimaryWeight(b[i]) THEN 1
  ELSE ComparePrimary(a, b, i + 1)

\* the same for the tertiary weights of two strings of equal primary weights
RECURSIVE CompareTertiary(_, _, _)
CompareTertiary(a, b, i) ==
  IF i > Len(a) \/ i > Len(b) THEN 0
  ELSE IF TertiaryWeight(a[i]) < TertiaryWeight(b[i]) THEN -1
  ELSE IF TertiaryWeight(a[i]) > TertiaryWeight(b[i]) THEN 1
  ELSE CompareTertiary(a, b, i + 1)

localeCompare(a, b) ==
  LET primary == ComparePrimary(a, b, 1)
  IN  IF primary # 0 THEN primary ELSE CompareTertiary(a, b, 1)

----------------------------------------------------------------------------
(* The cleaning step of fetchData *)

\* KeepReading with the reserved names compared without lower-casing
KeepReading_CaseSensitive(item) ==
  /\ isNaN(item.sensor)
  /\ item.sensor \notin ReservedNames

\* the predicate of json.data.filter
KeepReading(item) ==
  /\ isNaN(item.sensor)
  /\ toLowerCase(item.sensor) \notin ReservedNames

RECURSIVE FilterReadings(_)
FilterReadings(items) ==
  IF items = <<>> THEN <<>>
  ELSE IF KeepReading(Head(items))
    THEN <<Head(items)>> \o FilterReadings(Tail(items))
    ELSE FilterReadings(Tail(items))

\* the comparator of cleanData.sort
CompareReadings(a, b) == localeCompare(a.sensor, b.sensor)

\* InsertSorted with x placed before the elements it compares equal to
InsertSorted_BeforeEquals(sorted, x) ==
  LET k == Cardinality({i \in 1..Len(sorted) : CompareReadings(sorted[i], x) < 0})
  IN  SubSeq(sorted, 1, k) \o <<x>> \o SubSeq(sorted, k + 1, Len(sorted))

\* x goes after every element that does not compare greater than it
\* (Array.prototype.sort is stable)
InsertSorted(sorted, x) ==
  LET k == Cardinality({i \in 1..Len(sorted) : CompareReadings(sorted[i], x) <= 0})
  IN  SubSeq(sorted, 1, k) \o <<x>> \o SubSeq(sorted, k + 1, Len(sorted))

RECURSIVE SortReadings(_)
SortReadings(items) ==
  IF items = <<>> THEN <<>>
  ELSE InsertSorted(SortReadings(SubSeq(items, 1, Len(items) - 1)), items[Len(items)])

\* json.data.filter(...) followed by cleanData.sort(...)
CleanData(items) == SortReadings(FilterReadings(items))

----------------------------------------------------------------------------
(* What the endpoint may answer *)

Reading(sensor, value, is_anomaly) ==
  [sensor |-> sensor, value |-> value, is_anomaly |-> is_anomaly]

\* the readings of the polled responses: two sensors that differ in letter
\* case and a reserved control field
Readings ==
  {Reading(s_a_rh, 1, FALSE), Reading(s_B_temp, 2, TRUE), Reading(s_unix_time, 3, FALSE)}

SeqsUpTo(S, n) == UNION {[1..k -> S] : k \in 0..n}

ReadingArrays == SeqsUpTo(Readings, MaxReadings)

\* one history entry: { timestamp, data: { [sensorId]: number } }
HistoryEntry1 == [timestamp |-> 1, data |-> [s \in {s_a_rh} |-> Num(1)]]

\* json.history: absent, or an array
HistoryValues == {Undefined, Arr(<<HistoryEntry1>>)}

StatusValues == {Str(S3_STATUS), Str("RDS (Live)")}

\* the envelope { system_status, data, history }; an absent key reads undefined
Envelopes ==
  [type : {"object"},
   system_status : StatusValues,
   data : {Arr(a) : a \in ReadingArrays} \cup {Undefined},
   history : HistoryValues]

\* the legacy body: a bare array of readings
BareArrays == {Arr(a) : a \in ReadingArrays}

JsonBodies == Envelopes \cup BareArrays \cup {Null}

\* outcome of `await fetch(API_URL)` and `await response.json()`:
\* "rejected" - fetch rejects (network error); "not_ok" - response.ok is false;
\* "bad_json" - response.json() rejects; "json" - the body parsed to `json`
Responses ==
  [outcome : {"rejected", "not_ok", "bad_json"}, json : {Undefined}]
    \cup [outcome : {"json"}, json : JsonBodies]

\* localStorage.setItem is reached only by a healthy envelope with a data
\* array; there it succeeds, or throws because the quota is exceeded
SetItemOutcomes(resp) ==
  IF /\ resp.outcome = "json"
     /\ IsArray(Prop(resp.json, "data"))
     /\ Prop(resp.json, "system_status") # Str(S3_STATUS)
    THEN BOOLEAN
    ELSE {TRUE}

----------------------------------------------------------------------------
(* localStorage item 'greenhouse_cache' *)

\* getItem returns null
NoItem == [kind |-> "null"]
\* a string JSON.parse rejects
CorruptItem == [kind |-> "corrupt"]

\* JSON.stringify({data, history, timestamp}): a key whose value is undefined
\* is left out of the text
JSONStringify(cleanData, hist, timestamp) ==
  IF hist.type = "undefined"
    THEN [kind |-> "text",
          object |-> [data |-> Arr(cleanData), timestamp |-> timestamp]]
    ELSE [kind |-> "text",
          object |-> [data |-> Arr(cleanData), history |-> hist, timestamp |-> timestamp]]

\* JSON.parse(cached) of a text JSON.stringify wrote, followed by a property read
ParsedProp(item, key) ==
  IF key \in DOMAIN item.object THEN item.object[key] ELSE Undefined

\* the capture times new Date().toISOString() gives in this session; an
\* earlier session wrote an earlier one
CaptureTimes == {"2026-01-02T00:00:00.000Z"}
EarlierCaptureTime == "2026-01-01T00:00:00.000Z"

\* what an earlier session may have left in the store
InitialItems ==
  {NoItem, CorruptItem,
   JSONStringify(<<Reading(s_B_temp, 9, FALSE)>>, Arr(<<HistoryEntry1>>),
                 EarlierCaptureTime)}

----------------------------------------------------------------------------
(* fetchData, from the point where the awaited response is available.      *)
(* st is the part of the state the call reads and writes:                  *)
(* [data, history, isOffline, cache]                                       *)

\* TryBlock with the cache written on the failover-archive branch as well
TryBlock_CachesArchive(st, resp, setItemOk, now) ==
  LET json == resp.json
      jsonData == Prop(json, "data")
      jsonHistory == Prop(json, "history")
      isS3Backup == Prop(json, "system_status") = Str(S3_STATUS)
      cleanData == CleanData(jsonData.items)
      shown == [st EXCEPT !.data = cleanData, !.history = OrEmptyArray(jsonHistory)]
  IN  IF resp.outcome # "json"
        THEN [st |-> st, branch |-> "fetch_failed", threw |-> TRUE]
      ELSE IF json.type = "null"
        THEN [st |-> st, branch |-> "type_error", threw |-> TRUE]
      ELSE IF ~IsArray(jsonData)
        THEN [st |-> st, branch |-> "ignored", threw |-> FALSE]
      ELSE IF isS3Backup
        THEN [st |-> [shown EXCEPT !.isOffline = TRUE,
                                   !.cache = JSONStringify(cleanData, jsonHistory, now)],
              branch |-> "soft_offline", threw |-> FALSE]
      ELSE IF setItemOk
        THEN [st |-> [shown EXCEPT !.isOffline = FALSE,
                                   !.cache = JSONStringify(cleanData, jsonHistory, now)],
              branch |-> "healthy", threw |-> FALSE]
      ELSE [st |-> [shown EXCEPT !.isOffline = FALSE],
            branch |-> "write_failed", threw |-> TRUE]

\* TryBlock with the failover-archive branch marking the system offline
\* without replacing the displayed data
TryBlock_ArchiveKeepsData(st, resp, setItemOk, now) ==
  LET json == resp.json
      jsonData == Prop(json, "data")
      jsonHistory == Prop(json, "history")
      isS3Backup == Prop(json, "system_status") = Str(S3_STATUS)
      cleanData == CleanData(jsonData.items)
      shown == [st EXCEPT !.data = cleanData, !.history = OrEmptyArray(jsonHistory)]
  IN  IF resp.outcome # "json"
        THEN [st |-> st, branch |-> "fetch_failed", threw |-> TRUE]
      ELSE IF json.type = "null"
        THEN [st |-> st, branch |-> "type_error", threw |-> TRUE]
      ELSE IF ~IsArray(jsonData)
        THEN [st |-> st, branch |-> "ignored", threw |-> FALSE]
      ELSE IF isS3Backup
        THEN [st |-> [st EXCEPT !.isOffline = TRUE],
              branch |-> "soft_offline", threw |-> FALSE]
      ELSE IF setItemOk
        THEN [st |-> [shown EXCEPT !.isOffline = FALSE,
                                   !.cache = JSONStringify(cleanData, jsonHistory, now)],
              branch |-> "healthy", threw |-> FALSE]
      ELSE [st |-> [shown EXCEPT !.isOffline = FALSE],
            branch |-> "write_failed", threw |-> TRUE]

\* the try block: the resulting state, the branch taken, and whether the
\* block threw. setItemOk tells whether localStorage.setItem succeeds
\* (it throws when the quota is exceeded); now is the capture time
TryBlock(st, resp, setItemOk, now) ==
  LET json == resp.json
      jsonData == Prop(json, "data")
      jsonHistory == Prop(json, "history")
      isS3Backup == Prop(json, "system_status") = Str(S3_STATUS)
      cleanData == CleanData(jsonData.items)
      shown == [st EXCEPT !.data = cleanData, !.history = OrEmptyArray(jsonHistory)]
  IN  IF resp.outcome # "json"
        THEN [st |-> st, branch |-> "fetch_failed", threw |-> TRUE]
      ELSE IF json.type = "null"
        THEN [st |-> st, branch |-> "type_error", threw |-> TRUE]
      ELSE IF ~IsArray(jsonData)
        THEN [st |-> st, branch |-> "ignored", threw |-> FALSE]
      ELSE IF isS3Backup
        THEN [st |-> [shown EXCEPT !.isOffline = TRUE],
              branch |-> "soft_offline", threw |-> FALSE]
      ELSE IF setItemOk
        THEN [st |-> [shown EXCEPT !.isOffline = FALSE,
                                   !.cache = JSONStringify(cleanData, jsonHistory, now)],
              branch |-> "healthy", threw |-> FALSE]
      ELSE [st |-> [shown EXCEPT !.isOffline = FALSE],
            branch |-> "write_failed", threw |-> TRUE]

\* CatchBlock with the readings restored from the cache but not the history
CatchBlock_KeepsHistory(st) ==
  LET offline == [st EXCEPT !.isOffline = TRUE]
  IN  IF st.cache = NoItem
        THEN [st |-> offline, branch |-> "no_item", threw |-> FALSE]
      ELSE IF st.cache = CorruptItem
        THEN [st |-> offline, branch |-> "parse_threw", threw |-> TRUE]
      ELSE [st |-> [offline EXCEPT !.data = ParsedProp(st.cache, "data").items],
            branch |-> "restored", threw |-> FALSE]

\* CatchBlock with the readings emptied when the store holds no item
CatchBlock_ClearsOnMiss(st) ==
  LET offline == [st EXCEPT !.isOffline = TRUE]
  IN  IF st.cache = NoItem
        THEN [st |-> [offline EXCEPT !.data = <<>>],
              branch |-> "no_item", threw |-> FALSE]
      ELSE IF st.cache = CorruptItem
        THEN [st |-> offline, branch |-> "parse_threw", threw |-> TRUE]
      ELSE [st |-> [offline EXCEPT !.data = ParsedProp(st.cache, "data").items,
                                   !.history = ParsedProp(st.cache, "history")],
            branch |-> "restored", threw |-> FALSE]

\* the catch block: the resulting state, the branch taken, and whether
\* JSON.parse threw out of the block
CatchBlock(st) ==
  LET offline == [st EXCEPT !.isOffline = TRUE]
  IN  IF st.cache = NoItem
        THEN [st |-> offline, branch |-> "no_item", threw |-> FALSE]
      ELSE IF st.cache = CorruptItem
        THEN [st |-> offline, branch |-> "parse_threw", threw |-> TRUE]
      ELSE [st |-> [offline EXCEPT !.data = ParsedProp(st.cache, "data").items,
                                   !.history = ParsedProp(st.cache, "history")],
            branch |-> "restored", threw |-> FALSE]

\* try / catch / finally as a whole: the state after the call, the branches
\* taken, and whether the promise fetchData returned is rejected
RunFetchData(st, resp, setItemOk, now) ==
  LET tried == TryBlock(st, resp, setItemOk, now)
      caught == IF tried.threw
                  THEN CatchBlock(tried.st)
                  ELSE [st |-> tried.st, branch |-> "none", threw |-> FALSE]
  IN  [st |-> caught.st, try |-> tried.branch, catch |-> caught.branch,
       rejected |-> caught.threw]

NoCall ==
  [response |-> [outcome |-> "none", json |-> Undefined],
   try |-> "none", catch |-> "none", rejected |-> FALSE]

----------------------------------------------------------------------------
(* The state machine *)

\* selectedSensor: null is the empty sequence, a reading object is <<reading>>
NoSelection == <<>>

Init ==
  /\ data = <<>>
  /\ history = Arr(<<>>)
  /\ loading = TRUE
  /\ isOffline = FALSE
  /\ selectedSensor = NoSelection
  /\ cache \in InitialItems
  /\ interval = "none"
  /\ pending = {}
  /\ issued = 0
  /\ completed = 0
  /\ lastCall = NoCall

\* the mount effect: fetchData() and setInterval(fetchData, 60000)
Mount ==
  /\ interval = "none"
  /\ interval' = "set"
  /\ issued' = 1
  /\ pending' = {1}
  /\ UNCHANGED <<data, history, loading, isOffline, selectedSensor, cache,
                 completed, lastCall>>

\* Tick with the interval still firing after clearInterval
Tick_AfterClear ==
  /\ interval \in {"set", "cleared"}
  /\ issued < MaxFetches
  /\ issued' = issued + 1
  /\ pending' = pending \cup {issued + 1}
  /\ UNCHANGED <<data, history, loading, isOffline, selectedSensor, cache,
                 interval, completed, lastCall>>

\* the interval fires: one more fetchData call, whatever is still in flight
Tick ==
  /\ interval = "set"
  /\ issued < MaxFetches
  /\ issued' = issued + 1
  /\ pending' = pending \cup {issued + 1}
  /\ UNCHANGED <<data, history, loading, isOffline, selectedSensor, cache,
                 interval, completed, lastCall>>

\* the cleanup of the mount effect: clearInterval(interval)
Unmount ==
  /\ interval = "set"
  /\ interval' = "cleared"
  /\ UNCHANGED <<data, history, loading, isOffline, selectedSensor, cache,
                 pending, issued, completed, lastCall>>

\* FetchDataCompletes with setLoading(false) at the end of the try block and
\* of the catch block instead of in a finally block
FetchDataCompletes_NoFinally(id, resp, setItemOk, now) ==
  /\ id \in pending
  /\ \E run \in {RunFetchData([data |-> data, history |-> history,
                               isOffline |-> isOffline, cache |-> cache],
                              resp, setItemOk, now)} :
       /\ data' = run.st.data
       /\ history' = run.st.history
       /\ isOffline' = run.st.isOffline
       /\ cache' = run.st.cache
       /\ lastCall' = [response |-> resp, try |-> run.try,
                       catch |-> run.catch, rejected |-> run.rejected]
       /\ loading' = IF run.rejected THEN loading ELSE FALSE
  /\ pending' = pending \ {id}
  /\ completed' = completed + 1
  /\ UNCHANGED <<selectedSensor, interval, issued>>

\* the awaited response of call id arrives and the rest of fetchData runs;
\* now is what new Date().toISOString() gives
FetchDataCompletes(id, resp, setItemOk, now) ==
  /\ id \in pending
  /\ \E run \in {RunFetchData([data |-> data, history |-> history,
                               isOffline |-> isOffline, cache |-> cache],
                              resp, setItemOk, now)} :
       /\ data' = run.st.data
       /\ history' = run.st.history
       /\ isOffline' = run.st.isOffline
       /\ cache' = run.st.cache
       /\ lastCall' = [response |-> resp, try |-> run.try,
                       catch |-> run.catch, rejected |-> run.rejected]
  /\ loading' = FALSE
  /\ pending' = pending \ {id}
  /\ completed' = completed + 1
  /\ UNCHANGED <<selectedSensor, interval, issued>>

FetchDataReturns ==
  \E id \in pending, resp \in Responses :
    \E setItemOk \in SetItemOutcomes(resp), now \in CaptureTimes :
      FetchDataCompletes(id, resp, setItemOk, now)

\* onClick of a sensor card: the card's reading object becomes the selection
SelectSensor ==
  /\ ~loading
  /\ \E i \in 1..Len(data) : selectedSensor' = <<data[i]>>
  /\ UNCHANGED <<data, history, loading, isOffline, cache, interval, pending,
                 issued, completed, lastCall>>

\* overlay click, close button, Escape key
CloseModal ==
  /\ selectedSensor # NoSelection
  /\ selectedSensor' = NoSelection
  /\ UNCHANGED <<data, history, loading, isOffline, cache, interval, pending,
                 issued, completed, lastCall>>

\* data.findIndex(s => s.sensor === sensor), zero-based, -1 when absent
findIndex(items, sensor) ==
  IF \E i \in 1..Len(items) : items[i].sensor = sensor
    THEN (CHOOSE i \in 1..Len(items) :
            /\ items[i].sensor = sensor
            /\ \A j \in 1..(i - 1) : items[j].sensor # sensor) - 1
    ELSE -1

\* the % operator: the result takes the sign of the dividend
Remainder(a, n) == IF a >= 0 THEN a % n ELSE 0 - ((0 - a) % n)

\* chevrons and arrow keys
navigateModal(direction) ==
  /\ selectedSensor # NoSelection
  /\ Len(data) # 0
  /\ LET currentIndex == findIndex(data, selectedSensor[1].sensor)
         nextIndex == IF direction = "next"
                        THEN Remainder(currentIndex + 1, Len(data))
                        ELSE Remainder(currentIndex - 1 + Len(data), Len(data))
     IN  selectedSensor' = <<data[nextIndex + 1]>>
  /\ UNCHANGED <<data, history, loading, isOffline, cache, interval, pending,
                 issued, completed, lastCall>>

NavigateNext == navigateModal("next")

NavigatePrev == navigateModal("prev")

Next ==
  \/ Mount
  \/ Tick
  \/ Unmount
  \/ FetchDataReturns
  \/ SelectSensor
  \/ CloseModal
  \/ NavigateNext
  \/ NavigatePrev

Spec == Init /\ [][Next]_vars

----------------------------------------------------------------------------
(* One call of fetchData on its own, over a wider range of reading arrays: *)
(* the component is mounted, the store is empty, the mount call is in      *)
(* flight and its response carries any array of up to MaxCleanLen readings *)

\* identifiers that are kept, reserved in some letter case, or numeric
WideSensors ==
  {s_a_rh, s_A_rh, s_B_temp, s_a2, s_12abc,
   s_unix_time, s_UNIX_TIME, s_Timestamp, s_matlab_datenum,
   s_42, s_1e3}

\* one reading per identifier, and a second reading of a_rh
WideReadings ==
  {Reading(s, 1, FALSE) : s \in WideSensors} \cup {Reading(s_a_rh, 2, TRUE)}

WideResponses ==
  [outcome : {"json"},
   json : [type : {"object"},
           system_status : {Str("RDS (Live)")},
           data : {Arr(a) : a \in SeqsUpTo(WideReadings, MaxCleanLen)},
           history : {Arr(<<HistoryEntry1>>)}]]

InitMounted ==
  /\ data = <<>>
  /\ history = Arr(<<>>)
  /\ loading = TRUE
  /\ isOffline = FALSE
  /\ selectedSensor = NoSelection
  /\ cache = NoItem
  /\ interval = "set"
  /\ pending = {1}
  /\ issued = 1
  /\ completed = 0
  /\ lastCall = NoCall

FetchDataReturnsWide ==
  /\ 1 \in pending
  /\ \E resp \in WideResponses, now \in CaptureTimes :
       FetchDataCompletes(1, resp, TRUE, now)

SpecClean == InitMounted /\ [][FetchDataReturnsWide]_vars

----------------------------------------------------------------------------
(* Vocabulary of the properties *)

\* the response the last completed call received
lastResponse == lastCall.response
lastJson == lastCall.response.json

\* a call has completed in this step
CallCompletes == completed' = completed + 1

\* network error, non-success status or unparseable body
FetchFailed(resp) == resp.outcome \in {"rejected", "not_ok", "bad_json"}

\* an envelope that carries a data array
EnvelopeWithData(resp) ==
  /\ resp.outcome = "json"
  /\ resp.json.type = "object"
  /\ resp.json.data.type = "array"

SoftOffline(resp) ==
  EnvelopeWithData(resp) /\ resp.json.system_status = Str(S3_STATUS)

Healthy(resp) ==
  EnvelopeWithData(resp) /\ resp.json.system_status # Str(S3_STATUS)

\* the store holds a snapshot
HoldsSnapshot(item) == item.kind = "text"

\* the history the state takes from a response: its history array, or the
\* empty array when the response carries none
ShownHistory(resp) ==
  IF resp.json.history.type = "array" THEN resp.json.history ELSE Arr(<<>>)

Count(seq, x) == Cardinality({i \in 1..Len(seq) : seq[i] = x})

----------------------------------------------------------------------------
(* C1 *)

\* C1: the durable cache changes only in a step in which a call of
\* fetchData completes on a healthy (not failover-archive) envelope with a
\* data array; every other step - a failover-archive response, a failed
\* fetch, an ignored body, a selection action, a timer or lifecycle step -
\* leaves the cache content equal to what it was
C1_CacheWrittenOnlyByHealthyFetch ==
  [][cache' # cache => (CallCompletes /\ Healthy(lastCall'.response))]_vars

\* a failover-archive response replaced the displayed data while the store
\* keeps a snapshot with other readings
C1_Witness ==
  /\ SoftOffline(lastResponse)
  /\ HoldsSnapshot(cache)
  /\ data # <<>>
  /\ data # ParsedProp(cache, "data").items

----------------------------------------------------------------------------
(* C2 *)

\* C2: after a call completes on a healthy envelope (data and history
\* arrays), isOffline is false, the readings are the cleaned and sorted
\* response data, the history is the response history, and the cache holds
\* that same readings/history snapshot
C2_HealthyResponseApplied ==
  (Healthy(lastResponse) /\ lastJson.history.type = "array") =>
    /\ isOffline = FALSE
    /\ data = CleanData(lastJson.data.items)
    /\ history = lastJson.history
    /\ HoldsSnapshot(cache)
    /\ ParsedProp(cache, "data") = Arr(data)
    /\ ParsedProp(cache, "history") = history

\* the same with the setItem call succeeding: what is left of C2 when the
\* store accepts the write
C2_HealthyResponseAppliedWhenStored ==
  (Healthy(lastResponse) /\ lastJson.history.type = "array"
     /\ lastCall.try = "healthy") =>
    /\ isOffline = FALSE
    /\ data = CleanData(lastJson.data.items)
    /\ history = lastJson.history
    /\ HoldsSnapshot(cache)
    /\ ParsedProp(cache, "data") = Arr(data)
    /\ ParsedProp(cache, "history") = history

----------------------------------------------------------------------------
(* C3 *)

\* C3: after a call completes on a failover-archive envelope with a data
\* array, isOffline is true, the readings are the cleaned and sorted
\* response data and the history is the response history (empty when the
\* response carries none)
C3_SoftOfflineUpdatesDisplay ==
  SoftOffline(lastResponse) =>
    /\ isOffline = TRUE
    /\ data = CleanData(lastJson.data.items)
    /\ history = ShownHistory(lastResponse)
    /\ lastCall.try = "soft_offline"

\* a failover-archive response whose two readings were reordered replaced
\* the display of an earlier call
C3_Witness ==
  /\ SoftOffline(lastResponse)
  /\ completed = 2
  /\ Len(data) = 2
  /\ data # lastJson.data.items
  /\ history = Arr(<<HistoryEntry1>>)
  /\ isOffline

----------------------------------------------------------------------------
(* C4 *)

\* C4: after a call completes on a failed fetch (network error, non-success
\* status, unparseable body) while the store holds a snapshot, isOffline is
\* true and readings and history are exactly the snapshot's
C4_FailureRestoresSnapshot ==
  (FetchFailed(lastResponse) /\ HoldsSnapshot(cache)) =>
    /\ isOffline = TRUE
    /\ Arr(data) = ParsedProp(cache, "data")
    /\ history = ParsedProp(cache, "history")

\* a fetch failed in the second call and the state was restored from a
\* snapshot that this session wrote
C4_Witness ==
  /\ FetchFailed(lastResponse)
  /\ lastCall.catch = "restored"
  /\ completed = 2
  /\ data # <<>>
  /\ ParsedProp(cache, "timestamp") \in CaptureTimes

----------------------------------------------------------------------------
(* C5 *)

\* C5: a step in which a call completes on a failed fetch while the store
\* holds no item sets isOffline and leaves readings and history as they were
C5_FailureWithoutCacheKeepsState ==
  [][(CallCompletes /\ FetchFailed(lastCall'.response) /\ cache = NoItem) =>
       (isOffline' = TRUE /\ data' = data /\ history' = history)]_vars

\* a fetch failed with an empty store while readings were on display
C5_Witness ==
  /\ FetchFailed(lastResponse)
  /\ lastCall.catch = "no_item"
  /\ cache = NoItem
  /\ data # <<>>
  /\ isOffline

----------------------------------------------------------------------------
(* C6 *)

\* C6: a body that is a bare array of readings is applied like the same
\* array in a healthy envelope: the readings are the cleaned and sorted
\* array and isOffline is false; the body is neither ignored nor treated as
\* a failed fetch
C6_BareArrayApplied ==
  (lastResponse.outcome = "json" /\ lastJson.type = "array") =>
    /\ data = CleanData(lastJson.items)
    /\ isOffline = FALSE
    /\ lastCall.try \notin {"ignored", "fetch_failed", "type_error"}

----------------------------------------------------------------------------
(* C7 *)

\* the identifiers Number() parses, and the reserved names in any letter case
NumericSensors == {s_42, s_1e3, s_neg1p5, s_0x1F, s_sp7sp}
ReservedAnyCase == {s_matlab_datenum, s_unix_time, s_UNIX_TIME, s_timestamp, s_Timestamp}

\* C7: for every reading array, cleaning keeps exactly the entries (each as
\* often as it occurs) whose sensor is neither numeric nor a reserved name
\* in any letter case, and returns them in ascending order of the sensor
\* comparison
C7_CleaningKeepsAndSorts ==
  lastCall.try = "healthy" =>
    /\ \A r \in WideReadings :
         Count(data, r) =
           IF r.sensor \in NumericSensors \cup ReservedAnyCase
             THEN 0
             ELSE Count(lastJson.data.items, r)
    /\ \A i \in 1..Len(data) : data[i] \in WideReadings
    /\ \A i, j \in 1..Len(data) :
         i < j => localeCompare(data[i].sensor, data[j].sensor) <= 0

\* three readings, one reserved in upper case, the other two kept and
\* swapped by the sort
C7_Witness ==
  /\ lastCall.try = "healthy"
  /\ Len(lastJson.data.items) = 3
  /\ lastJson.data.items[1].sensor = s_B_temp
  /\ lastJson.data.items[2].sensor = s_UNIX_TIME
  /\ lastJson.data.items[3].sensor = s_a_rh
  /\ Len(data) = 2
  /\ data[1].sensor = s_a_rh

----------------------------------------------------------------------------
(* C8 *)

\* C8: no two entries of the displayed readings carry the same sensor
C8_ReadingsDeduplicated ==
  \A i, j \in 1..Len(data) : i # j => data[i].sensor # data[j].sensor

----------------------------------------------------------------------------
(* C9 *)

\* C9: loading is true until the first call completes, false from then on
\* whatever the outcome of the call, and never true again
C9_LoadingUntilFirstCompletion ==
  /\ [](loading = (completed = 0))
  /\ [][loading' => loading]_vars

\* two calls have completed, the last one rejecting its promise
C9_Witness ==
  /\ completed = 2
  /\ lastCall.rejected
  /\ ~loading

----------------------------------------------------------------------------
(* C10 *)

\* C10: no call of fetchData ends with a rejected promise, whatever the
\* fetch outcome, the body, the store content and the setItem outcome
C10_NeverRejects == lastCall.rejected = FALSE

----------------------------------------------------------------------------
(* C11 *)

\* the entry of the displayed readings that data.findIndex gives for the
\* selected sensor's identifier
MatchedReading == data[findIndex(data, selectedSensor[1].sensor) + 1]

\* C11: while a sensor is selected and the displayed readings hold an entry
\* with its identifier, the value and is_anomaly the detail view takes from
\* the selection are those of that entry of the current readings
C11_SelectionRematched ==
  (selectedSensor # NoSelection
     /\ findIndex(data, selectedSensor[1].sensor) >= 0) =>
    /\ selectedSensor[1].value = MatchedReading.value
    /\ selectedSensor[1].is_anomaly = MatchedReading.is_anomaly

----------------------------------------------------------------------------
(* C12 *)

\* C12: a step in which a call completes on a failed fetch, while the
\* displayed readings and history are those of a failover-archive response
\* applied after the last cache write, leaves readings and history as they
\* were instead of replacing them with the older stored snapshot
C12_FailureKeepsFresherData ==
  [][(CallCompletes /\ FetchFailed(lastCall'.response)
        /\ lastCall.try = "soft_offline") =>
       (data' = data /\ history' = history)]_vars

----------------------------------------------------------------------------
(* getChartData, the series the detail modal gives to the area chart *)

\* longest history a response carries to the chart
MaxHistory == 2

\* a number with three decimals, and a JavaScript boolean
Dec(thousandths) == [type |-> "number", thousandths |-> thousandths]
Bool(b) == [type |-> "boolean", value |-> b]

\* entry.data[sensorName]: an absent key reads undefined
ReadKey(obj, key) == IF key \in DOMAIN obj THEN obj[key] ELSE Undefined

\* val !== 0
IsZero(val) == val \in {Num(0), Dec(0)}

\* KeepEntry with the zero test applied to every sensor
KeepEntry_ZeroAlwaysDropped(entry, sensorName) ==
  LET val == ReadKey(entry.data, sensorName)
  IN  IF val.type \in {"null", "undefined"} THEN FALSE
      ELSE ~IsZero(val)

\* the predicate of history.filter
KeepEntry(entry, sensorName) ==
  LET val == ReadKey(entry.data, sensorName)
  IN  IF val.type \in {"null", "undefined"} THEN FALSE
      ELSE IF sensorName = s_indoor_co2 \/ sensorName = s_indoor_vpd
        THEN ~IsZero(val)
      ELSE TRUE

RECURSIVE FilterEntries(_, _)
FilterEntries(entries, sensorName) ==
  IF entries = <<>> THEN <<>>
  ELSE IF KeepEntry(Head(entries), sensorName)
    THEN <<Head(entries)>> \o FilterEntries(Tail(entries), sensorName)
    ELSE FilterEntries(Tail(entries), sensorName)

\* parseFloat(val.toFixed(2)), in hundredths: toFixed takes the nearest
\* number with two decimals and the one of larger magnitude on a tie
ToFixed2(val) ==
  IF "thousandths" \in DOMAIN val
    THEN LET m == val.thousandths
             q == ((IF m < 0 THEN 0 - m ELSE m) + 5) \div 10
         IN  [type |-> "number", hundredths |-> IF m < 0 THEN 0 - q ELSE q]
    ELSE [type |-> "number", hundredths |-> val.value * 100]

\* selectedSensor?.is_anomaly && index === arr.length - 1
IsAnomalyPoint(index, arr) ==
  IF selectedSensor = <<>> THEN Undefined
  ELSE IF ~selectedSensor[1].is_anomaly THEN Bool(FALSE)
  ELSE Bool(index = Len(arr) - 1)

\* the callback of .map; index is zero-based; the time label is the
\* hour:minute text of the entry's timestamp
ChartPoint(entry, index, arr, sensorName) ==
  [uniqueKey |-> <<entry.timestamp, index>>,
   timeLabel |-> [hourMinuteOf |-> entry.timestamp],
   value |-> ToFixed2(ReadKey(entry.data, sensorName)),
   isAnomalyPoint |-> IsAnomalyPoint(index, arr)]

getChartData(sensorName) ==
  IF history.type # "array" \/ history.items = <<>> THEN <<>>
  ELSE LET arr == FilterEntries(history.items, sensorName)
       IN  [i \in 1..Len(arr) |-> ChartPoint(arr[i], i - 1, arr, sensorName)]

----------------------------------------------------------------------------
(* The chart of one response: the component is mounted, the mount call is  *)
(* in flight, its response carries three sensors and any history of up to  *)
(* MaxHistory entries; then cards are clicked and the modal is closed      *)

ChartSensors == {s_a_rh, s_indoor_co2, s_indoor_vpd}

\* what an entry may hold for a sensor, besides no key at all
ChartValues == {Null, Num(0), Dec(1236)}

\* entry.data: values for a_rh and for one of the concentration sensors
ChartEntryData ==
  UNION {[D -> ChartValues] :
           D \in (SUBSET {s_a_rh, s_indoor_co2}) \cup (SUBSET {s_a_rh, s_indoor_vpd})}

\* the histories of k entries; the k-th entry carries timestamp k
RECURSIVE ChartHistoriesOfLen(_)
ChartHistoriesOfLen(k) ==
  IF k = 0 THEN {<<>>}
  ELSE {Append(h, [timestamp |-> k, data |-> d]) :
          h \in ChartHistoriesOfLen(k - 1), d \in ChartEntryData}

\* the histories of up to MaxHistory entries
ChartHistories ==
  {SubSeq(h, 1, k) : h \in ChartHistoriesOfLen(MaxHistory), k \in 0..MaxHistory}

ChartReadings ==
  <<Reading(s_a_rh, 1, FALSE), Reading(s_indoor_co2, 2, TRUE),
    Reading(s_indoor_vpd, 3, FALSE)>>

ChartResponses ==
  [outcome : {"json"},
   json : [type : {"object"},
           system_status : {Str("RDS (Live)")},
           data : {Arr(ChartReadings)},
           history : {Arr(h) : h \in ChartHistories}]]

FetchDataReturnsChart ==
  /\ 1 \in pending
  /\ \E resp \in ChartResponses, now \in CaptureTimes :
       FetchDataCompletes(1, resp, TRUE, now)

NextChart ==
  \/ FetchDataReturnsChart
  \/ SelectSensor
  \/ CloseModal

SpecChart == InitMounted /\ [][NextChart]_vars

----------------------------------------------------------------------------
(* C13 *)

\* positions of the history entries whose value for the sensor is neither
\* null nor undefined and, for indoor_co2 and indoor_vpd, not zero
RetainedPositions(sensorName) ==
  {i \in 1..Len(history.items) :
     LET e == history.items[i]
     IN  /\ sensorName \in DOMAIN e.data
         /\ e.data[sensorName] # Null
         /\ (sensorName \in {s_indoor_co2, s_indoor_vpd} =>
               e.data[sensorName] # Num(0))}

\* C13: for every sensor, the chart series has one point per history entry
\* whose value for that sensor is neither null nor undefined and, for the
\* CO2/VPD sensors, not zero; the points follow the order of the history
\* (the k-th point is the k-th such entry) and a zero of any other sensor
\* is retained
C13_ChartSeriesIsFilteredHistory ==
  (completed = 1) =>
    \A s \in ChartSensors :
      LET series == getChartData(s)
          kept == RetainedPositions(s)
      IN  /\ Len(series) = Cardinality(kept)
          /\ \A i \in kept :
               LET k == Cardinality({j \in kept : j <= i})
               IN  series[k].uniqueKey = <<history.items[i].timestamp, k - 1>>

\* the modal shows a_rh; the first entry has a zero for a_rh and for
\* indoor_co2, the second a null for a_rh: the a_rh series is the first
\* entry with its zero, the indoor_co2 series is empty
C13_Witness ==
  /\ completed = 1
  /\ selectedSensor # NoSelection
  /\ selectedSensor[1].sensor = s_a_rh
  /\ Len(history.items) = 2
  /\ ReadKey(history.items[1].data, s_a_rh) = Num(0)
  /\ ReadKey(history.items[1].data, s_indoor_co2) = Num(0)
  /\ ReadKey(history.items[2].data, s_a_rh) = Null
  /\ Len(getChartData(s_a_rh)) = 1
  /\ getChartData(s_a_rh)[1].value = ToFixed2(Num(0))
  /\ getChartData(s_indoor_co2) = <<>>

----------------------------------------------------------------------------
(* C14 *)

\* C14: the readings a healthy response leaves on display are the output of
\* the filter/sort step, and giving them to that step again returns the
\* identical array: same entries, same order
C14_CleaningIdempotent ==
  lastCall.try = "healthy" =>
    /\ data = CleanData(lastJson.data.items)
    /\ CleanData(data) = data

\* the response held a reserved name between two readings of a_rh with
\* different values: the output keeps the two in their response order
C14_Witness ==
  /\ lastCall.try = "healthy"
  /\ Len(lastJson.data.items) = 3
  /\ lastJson.data.items[2].sensor = s_UNIX_TIME
  /\ data = <<Reading(s_a_rh, 2, TRUE), Reading(s_a_rh, 1, FALSE)>>

----------------------------------------------------------------------------
(* C15 *)

\* C15: at most one call of fetchData is in flight at a time, and a call
\* never completes (applying its response to readings, history, isOffline
\* and the cache) after a call that was issued later than it has completed
C15_NoOverlapNoReorder ==
  /\ [](Cardinality(pending) <= 1)
  /\ [][CallCompletes =>
          \A id \in pending \ pending' :
            \A later \in (id + 1)..issued : later \in pending]_vars

----------------------------------------------------------------------------
(* C16 *)

\* C16: once the cleanup of the mount effect has run, no step changes the
\* readings, the history, isOffline, loading or the cache: the response or
\* failure of a call that was in flight at teardown is discarded
C16_NothingAppliedAfterTeardown ==
  [][interval = "cleared" =>
       UNCHANGED <<data, history, isOffline, loading, cache>>]_vars

----------------------------------------------------------------------------
(* C17 *)

\* the body parsed as JSON and carries no readings array
NoReadingsArray(resp) ==
  resp.outcome = "json" /\ ~IsArray(Prop(resp.json, "data"))

\* C17: after a call completes on a parsed body without a readings array,
\* isOffline is true and, when the store holds a snapshot, readings and
\* history are the snapshot's, as after a failed fetch
C17_MalformedBodyIsFailure ==
  NoReadingsArray(lastResponse) =>
    /\ isOffline = TRUE
    /\ HoldsSnapshot(cache) =>
         /\ Arr(data) = ParsedProp(cache, "data")
         /\ history = ParsedProp(cache, "history")

----------------------------------------------------------------------------
(* Polling without end: the mount call has failed, the component stays     *)
(* mounted, the interval keeps firing and from now on the endpoint answers *)
(* every call with a healthy envelope. The counters stop at MaxFetches and *)
(* a call takes the lowest free number, so that the polling can go on for  *)
(* ever in a finite state space                                            *)

\* what the endpoint answers once it is healthy
HealthyResponses ==
  [outcome : {"json"},
   json : [type : {"object"},
           system_status : {Str("RDS (Live)")},
           data : {Arr(a) : a \in ReadingArrays},
           history : HistoryValues]]

\* the state fetchData leaves when the mount call is rejected
AfterFailedMount(item) ==
  RunFetchData([data |-> <<>>, history |-> Arr(<<>>), isOffline |-> FALSE,
                cache |-> item],
               [outcome |-> "rejected", json |-> Undefined], TRUE,
               EarlierCaptureTime)

InitPoll ==
  \E item \in InitialItems :
    \E run \in {AfterFailedMount(item)} :
      /\ data = run.st.data
      /\ history = run.st.history
      /\ isOffline = run.st.isOffline
      /\ cache = run.st.cache
      /\ lastCall = [response |-> [outcome |-> "rejected", json |-> Undefined],
                     try |-> run.try, catch |-> run.catch,
                     rejected |-> run.rejected]
      /\ loading = FALSE
      /\ selectedSensor = NoSelection
      /\ interval = "set"
      /\ pending = {}
      /\ issued = 1
      /\ completed = 1

\* the interval fires
PollTick ==
  /\ interval = "set"
  /\ Cardinality(pending) < MaxFetches
  /\ pending' = pending \cup
       {CHOOSE id \in 1..MaxFetches :
          id \notin pending /\ \A j \in 1..(id - 1) : j \in pending}
  /\ issued' = IF issued < MaxFetches THEN issued + 1 ELSE issued
  /\ UNCHANGED <<data, history, loading, isOffline, selectedSensor, cache,
                 interval, completed, lastCall>>

\* the healthy response of call id arrives and the rest of fetchData runs
PollCompletes(id, resp, setItemOk, now) ==
  /\ id \in pending
  /\ \E run \in {RunFetchData([data |-> data, history |-> history,
                               isOffline |-> isOffline, cache |-> cache],
                              resp, setItemOk, now)} :
       /\ data' = run.st.data
       /\ history' = run.st.history
       /\ isOffline' = run.st.isOffline
       /\ cache' = run.st.cache
       /\ lastCall' = [response |-> resp, try |-> run.try,
                       catch |-> run.catch, rejected |-> run.rejected]
  /\ loading' = FALSE
  /\ pending' = pending \ {id}
  /\ completed' = IF completed < MaxFetches THEN completed + 1 ELSE completed
  /\ UNCHANGED <<selectedSensor, interval, issued>>

PollReturns ==
  \E id \in pending, resp \in HealthyResponses :
    \E setItemOk \in SetItemOutcomes(resp), now \in CaptureTimes :
      PollCompletes(id, resp, setItemOk, now)

NextPoll ==
  \/ PollTick
  \/ PollReturns

\* the timer is fair and every call is answered
SpecPoll ==
  InitPoll /\ [][NextPoll]_vars /\ WF_vars(PollTick) /\ WF_vars(PollReturns)

----------------------------------------------------------------------------
(* C18 *)

\* C18: a call is started only by a step of the timer, never by the step in
\* which a call completes; and with a fair timer and an endpoint that
\* answers healthy from now on, a state is reached in which isOffline is
\* false and the readings are the cleaned data of a healthy response
C18_RecoversAtNextTick ==
  /\ [][pending' \ pending # {} =>
          (pending \subseteq pending'
             /\ UNCHANGED <<data, history, isOffline, cache, lastCall>>)]_vars
  /\ <>(/\ isOffline = FALSE
        /\ Healthy(lastResponse)
        /\ data = CleanData(lastJson.data.items))

----------------------------------------------------------------------------
(* C19 *)

\* C19: no call of fetchData is issued before the mount; the mount issues
\* exactly one call and sets the timer; every later call is issued one at a
\* time while the timer is set; and once the timer is cleared it stays
\* cleared and no call is issued any more
C19_TimerCancelledOnTeardown ==
  /\ [](interval = "none" => issued = 0)
  /\ [][/\ (interval = "none" /\ interval' # "none") =>
             (interval' = "set" /\ issued' = 1 /\ pending' = {1})
        /\ issued' # issued =>
             (/\ issued' = issued + 1
              /\ pending' = pending \cup {issued'}
              /\ interval' = "set")
        /\ interval = "cleared" =>
             (/\ interval' = "cleared"
              /\ issued' = issued
              /\ pending' \subseteq pending)]_vars

\* the timer fired once, the component was torn down, and both calls have
\* completed
C19_Witness ==
  /\ interval = "cleared"
  /\ issued = 2
  /\ completed = 2
  /\ pending = {}

----------------------------------------------------------------------------
(* C20 *)

\* C20: a selection, when there is one, carries the identifier of an entry
\* of the displayed readings
C20_SelectionPresentInReadings ==
  selectedSensor # NoSelection =>
    findIndex(data, selectedSensor[1].sensor) >= 0

----------------------------------------------------------------------------
(* C21 *)

\* C21: in every state the history is an array, possibly empty, and never
\* undefined; also after a healthy response without a history field was
\* stored and a later failed fetch restored the state from the store
C21_HistoryAlwaysArray == history.type = "array"

----------------------------------------------------------------------------
(* C22 *)

\* C22: after a call completes on a healthy envelope whose cache write
\* threw, isOffline is false, the readings are the cleaned and sorted
\* response data, the history is the response history (empty when the
\* response carries none), and the catch block has not run
C22_CacheWriteBestEffort ==
  (Healthy(lastResponse) /\ lastCall.try = "write_failed") =>
    /\ isOffline = FALSE
    /\ data = CleanData(lastJson.data.items)
    /\ history = ShownHistory(lastResponse)
    /\ lastCall.catch = "none"

----------------------------------------------------------------------------
(* C23 *)

\* a is less than or equal to b in the lexicographic order of the code
\* units, from position i on
RECURSIVE OrdinalLeq(_, _, _)
OrdinalLeq(a, b, i) ==
  IF i > Len(a) THEN TRUE
  ELSE IF i > Len(b) THEN FALSE
  ELSE IF a[i] < b[i] THEN TRUE
  ELSE IF a[i] > b[i] THEN FALSE
  ELSE OrdinalLeq(a, b, i + 1)

\* C23: the displayed readings are in the case-sensitive code-unit order
\* of their sensor identifiers: each reading's sensor is ordinally less
\* than or equal to the sensor of the reading that follows it
C23_OrdinalOrder ==
  \A i \in 1..(Len(data) - 1) :
    OrdinalLeq(data[i].sensor, data[i + 1].sensor, 1)

====
